---- MODULE Spec2Model ----
(***************************************************************************)
(* Recipe Management System (src/app1.py): the session state of one        *)
(* Streamlit session (recipes, recipe_tree, recently_viewed), the file     *)
(* recipes.json, and the script runs that the add form, the delete button  *)
(* and the edit form trigger.                                              *)
(*                                                                         *)
(* Strings are sequences of code points (32 = " ", 10 = newline,           *)
(* 65 = "A", 66 = "B", 97 = "a", 120 = "x", 121 = "y"), so that lower(),   *)
(* strip(), splitlines(), "<" and "in" are computed as Python computes     *)
(* them.  None and the empty string, which the script only ever tests by   *)
(* truthiness, are both the empty sequence.                                *)
(***************************************************************************)
EXTENDS Integers, Sequences, FiniteSets, TLC

VARIABLES
    recipes,          \* st.session_state.recipes: list of recipe dicts
    recipe_tree,      \* st.session_state.recipe_tree: the BinarySearchTree
    recently_viewed,  \* st.session_state.recently_viewed: deque(maxlen=5)
    store,            \* the file recipes.json
    last,             \* what the last script run did and reported
    entered,          \* the names typed into the add form by the adds that succeeded
    most_recent,      \* the names viewed, each once, in the order of their latest view
    widgets           \* the widget state Streamlit kept from the last run

vars == <<recipes, recipe_tree, recently_viewed, store, last,
          entered, most_recent, widgets>>

\* Most recipes the collection is let grow to.
MaxRecipes == 2

\* deque(maxlen=5)
RecentMax == 5

\* Most recipes put in a BinarySearchTree by hand.
MaxInserted == 3

(***************************************************************************)
(* Python string operations                                                *)
(***************************************************************************)

\* str.lower() on one code point
LowerChar(c) == IF c \in 65..90 THEN c + 32 ELSE c

\* str.lower()
Lower(s) == [i \in 1..Len(s) |-> LowerChar(s[i])]

\* the characters str.strip() removes
Whitespace == {9, 10, 11, 12, 13, 32}

RECURSIVE LStrip(_)
LStrip(s) ==
    IF s # <<>> /\ Head(s) \in Whitespace THEN LStrip(Tail(s)) ELSE s

RECURSIVE RStrip(_)
RStrip(s) ==
    IF s # <<>> /\ s[Len(s)] \in Whitespace
    THEN RStrip(SubSeq(s, 1, Len(s) - 1))
    ELSE s

\* str.strip()
Strip(s) == RStrip(LStrip(s))

\* a < b on strings: lexicographic by code point
StrLess(a, b) ==
    \E k \in 1..(Len(a) + 1) :
        /\ k <= Len(b)
        /\ \A j \in 1..(k - 1) : a[j] = b[j]
        /\ (k = Len(a) + 1 \/ a[k] < b[k])

\* sub in s
Contains(sub, s) ==
    \E i \in 0..Len(s) :
        /\ i + Len(sub) <= Len(s)
        /\ SubSeq(s, i + 1, i + Len(sub)) = sub

\* str.splitlines() (newline is the only line boundary of the alphabet)
RECURSIVE SplitFrom(_, _, _)
SplitFrom(text, cur, started) ==
    IF text = <<>>
    THEN IF started THEN <<cur>> ELSE <<>>
    ELSE IF Head(text) = 10
         THEN <<cur>> \o SplitFrom(Tail(text), <<>>, FALSE)
         ELSE SplitFrom(Tail(text), Append(cur, Head(text)), TRUE)

splitlines(text) == SplitFrom(text, <<>>, FALSE)

\* [line.strip() for line in text.splitlines() if line.strip()]
RECURSIVE StripLines(_)
StripLines(lines) ==
    IF lines = <<>>
    THEN <<>>
    ELSE IF Strip(Head(lines)) # <<>>
         THEN <<Strip(Head(lines))>> \o StripLines(Tail(lines))
         ELSE StripLines(Tail(lines))

FieldLines(text) == StripLines(splitlines(text))

(***************************************************************************)
(* BinarySearchTree.  The tree is the sequence of its nodes in order of    *)
(* creation, the root first; left and right are node numbers, 0 for None.  *)
(* A node's recipe is a reference to a dict of the list the tree was built *)
(* from: the position of that dict in the list.                            *)
(***************************************************************************)

TreeNode(recipe) == [recipe |-> recipe, left |-> 0, right |-> 0]

\* insert_recursively without the .lower() of lines 78-79
RECURSIVE insert_recursively_case_sensitive(_, _, _, _)
insert_recursively_case_sensitive(tree, rs, node, recipe) ==
    LET new_name == rs[recipe].name
        node_name == rs[tree[node].recipe].name
    IN  IF StrLess(new_name, node_name)
        THEN IF tree[node].left = 0
             THEN [Append(tree, TreeNode(recipe)) EXCEPT ![node].left = Len(tree) + 1]
             ELSE insert_recursively_case_sensitive(tree, rs, tree[node].left, recipe)
        ELSE IF tree[node].right = 0
             THEN [Append(tree, TreeNode(recipe)) EXCEPT ![node].right = Len(tree) + 1]
             ELSE insert_recursively_case_sensitive(tree, rs, tree[node].right, recipe)

\* an insert that puts a recipe whose key is already in the tree in the place
\* of the one that has it
RECURSIVE insert_recursively_replacing(_, _, _, _)
insert_recursively_replacing(tree, rs, node, recipe) ==
    LET new_name == Lower(rs[recipe].name)
        node_name == Lower(rs[tree[node].recipe].name)
    IN  IF new_name = node_name
        THEN [tree EXCEPT ![node].recipe = recipe]
        ELSE IF StrLess(new_name, node_name)
        THEN IF tree[node].left = 0
             THEN [Append(tree, TreeNode(recipe)) EXCEPT ![node].left = Len(tree) + 1]
             ELSE insert_recursively_replacing(tree, rs, tree[node].left, recipe)
        ELSE IF tree[node].right = 0
             THEN [Append(tree, TreeNode(recipe)) EXCEPT ![node].right = Len(tree) + 1]
             ELSE insert_recursively_replacing(tree, rs, tree[node].right, recipe)

\* an insert with the two branches of line 81 exchanged
RECURSIVE insert_recursively_mirrored(_, _, _, _)
insert_recursively_mirrored(tree, rs, node, recipe) ==
    LET new_name == Lower(rs[recipe].name)
        node_name == Lower(rs[tree[node].recipe].name)
    IN  IF StrLess(new_name, node_name)
        THEN IF tree[node].right = 0
             THEN [Append(tree, TreeNode(recipe)) EXCEPT ![node].right = Len(tree) + 1]
             ELSE insert_recursively_mirrored(tree, rs, tree[node].right, recipe)
        ELSE IF tree[node].left = 0
             THEN [Append(tree, TreeNode(recipe)) EXCEPT ![node].left = Len(tree) + 1]
             ELSE insert_recursively_mirrored(tree, rs, tree[node].left, recipe)

RECURSIVE insert_recursively(_, _, _, _)
insert_recursively(tree, rs, node, recipe) ==
    LET new_name == Lower(rs[recipe].name)
        node_name == Lower(rs[tree[node].recipe].name)
    IN  IF StrLess(new_name, node_name)
        THEN IF tree[node].left = 0
             THEN [Append(tree, TreeNode(recipe)) EXCEPT ![node].left = Len(tree) + 1]
             ELSE insert_recursively(tree, rs, tree[node].left, recipe)
        ELSE IF tree[node].right = 0
             THEN [Append(tree, TreeNode(recipe)) EXCEPT ![node].right = Len(tree) + 1]
             ELSE insert_recursively(tree, rs, tree[node].right, recipe)

insert(tree, rs, recipe) ==
    IF tree = <<>>
    THEN <<TreeNode(recipe)>>
    ELSE insert_recursively(tree, rs, 1, recipe)

RECURSIVE search_recursively(_, _, _, _)
search_recursively(tree, rs, node, name_lower) ==
    IF node = 0
    THEN 0
    ELSE LET node_name == Lower(rs[tree[node].recipe].name)
         IN  IF node_name = name_lower
             THEN tree[node].recipe
             ELSE IF StrLess(name_lower, node_name)
                  THEN search_recursively(tree, rs, tree[node].left, name_lower)
                  ELSE search_recursively(tree, rs, tree[node].right, name_lower)

\* the number of nodes _search_recursively is called on (lines 96-107)
RECURSIVE search_visits(_, _, _, _)
search_visits(tree, rs, node, name_lower) ==
    IF node = 0
    THEN 0
    ELSE LET node_name == Lower(rs[tree[node].recipe].name)
         IN  IF node_name = name_lower
             THEN 1
             ELSE IF StrLess(name_lower, node_name)
                  THEN 1 + search_visits(tree, rs, tree[node].left, name_lower)
                  ELSE 1 + search_visits(tree, rs, tree[node].right, name_lower)

\* the position of the recipe found, 0 for None
search(tree, rs, name) ==
    search_recursively(tree, rs, IF tree = <<>> THEN 0 ELSE 1, Lower(name))

RECURSIVE BuildFrom(_, _, _)
BuildFrom(tree, rs, i) ==
    IF i > Len(rs) THEN tree ELSE BuildFrom(insert(tree, rs, i), rs, i + 1)

build_tree(rs) == BuildFrom(<<>>, rs, 1)

(***************************************************************************)
(* Helpers: load/save & init state                                         *)
(***************************************************************************)

Recipe(name, ingredients, instructions) ==
    [name |-> name, ingredients |-> ingredients, instructions |-> instructions]

\* recipes.json: absent, unparsable, or holding a list of recipes
NoFile == [state |-> "absent", data |-> <<>>]
BadFile == [state |-> "corrupt", data |-> <<>>]
File(rs) == [state |-> "ok", data |-> rs]

load_recipes_from_file(file) ==
    IF file.state = "ok" THEN file.data ELSE <<>>

\* a save that cannot fail
save_recipes_to_file_unfailing(file, rs, io) == File(rs)

\* lines 126-131.  io is what the operating system does with the write: "ok";
\* "open_fails", open(RECIPES_FILE, "w") raises and the file is as it was;
\* "write_fails", open() has truncated the file and json.dump or the closing
\* flush raises, which leaves an empty or cut-off text that json.load rejects.
\* The exception is caught and reported in all cases.
save_recipes_to_file(file, rs, io) ==
    IF io = "ok" THEN File(rs)
    ELSE IF io = "write_fails" THEN BadFile
    ELSE file

\* a rebuild made before the last recipe of rs was put there
rebuild_tree_before_change(rs) ==
    build_tree(IF rs = <<>> THEN rs ELSE SubSeq(rs, 1, Len(rs) - 1))

\* lines 149-150
rebuild_tree(rs) == build_tree(rs)

Range(seq) == {seq[i] : i \in 1..Len(seq)}

(***************************************************************************)
(* One run of the script, top to bottom                                    *)
(***************************************************************************)

Positions(rs) == [i \in 1..Len(rs) |-> i]

\* lines 175-190: the recipes listed, as references into rs
filtered_recipes(rs, tree, search_query) ==
    IF Strip(search_query) # <<>>
    THEN LET bst_result == search(tree, rs, Strip(search_query))
         IN  IF bst_result # 0
             THEN <<bst_result>>
             ELSE SelectSeq(Positions(rs),
                            LAMBDA i : Contains(Lower(search_query), Lower(rs[i].name)))
    ELSE Positions(rs)

\* line 192
recipe_names(rs, filtered) == [k \in 1..Len(filtered) |-> rs[filtered[k]].name]

\* lines 194-201: the selectbox returns the option the user chose (choice is its
\* place in the list), None when there is nothing to list
selectbox(names, choice) == IF names = <<>> THEN <<>> ELSE names[choice]

\* lines 273-279: the first listed recipe with the selected name, 0 for None
selected_recipe(rs, filtered, selected_recipe_name) ==
    IF selected_recipe_name # <<>>
       /\ \E k \in 1..Len(filtered) : rs[filtered[k]].name = selected_recipe_name
    THEN filtered[CHOOSE k \in 1..Len(filtered) :
                    /\ rs[filtered[k]].name = selected_recipe_name
                    /\ \A j \in 1..(k - 1) : rs[filtered[j]].name # selected_recipe_name]
    ELSE 0

\* an append to a deque without maxlen
deque_append_unbounded(dq, x) == Append(dq, x)

\* deque(maxlen=5).append
deque_append(dq, x) ==
    IF Len(dq) = RecentMax THEN Append(Tail(dq), x) ELSE Append(dq, x)

\* lines 281-284
track_viewed(dq, rs, selected) ==
    IF selected # 0 /\ rs[selected].name \notin Range(dq)
    THEN deque_append(dq, rs[selected].name)
    ELSE dq

\* the session state and the file, as one value
State(rs, tree, dq, file) ==
    [recipes |-> rs, recipe_tree |-> tree, recently_viewed |-> dq, store |-> file]

\* a session that has not run the script yet: nothing in st.session_state
NewSession(file) == State(<<>>, <<>>, <<>>, file)

\* an init_session_state() without the test of line 142
init_session_state_reloading(S, present) ==
    State(load_recipes_from_file(S.store),
          build_tree(load_recipes_from_file(S.store)), <<>>, S.store)

\* lines 141-146; present: "recipes" in st.session_state
init_session_state(S, present) ==
    IF ~present
    THEN State(load_recipes_from_file(S.store),
               build_tree(load_recipes_from_file(S.store)), <<>>, S.store)
    ELSE S

\* a call of rebuild_tree or save_recipes_to_file, with the collection it is
\* made on
Call(fn, rs) == [fn |-> fn, recipes |-> rs]

\* lines 239-240, 255-256, 362-363: the calls a handler makes once it has
\* changed the collection to rs, in the order it makes them
rebuild_then_save(rs) ==
    <<Call("rebuild_tree", rs), Call("save_recipes_to_file", rs)>>

\* what a handler leaves behind: the collection, the Index, the file, what it
\* reported (outcome), whether it called save_recipes_to_file (saved), and
\* the calls it made on the collection
Result(rs, tree, file, op, outcome, saved, calls) ==
    [recipes |-> rs, recipe_tree |-> tree, store |-> file,
     op |-> op, outcome |-> outcome, saved |-> saved, calls |-> calls]

\* st.experimental_rerun(): the script runs again from the top with no button
\* pressed and the same search text.  The selectbox (index=0) keeps its value
\* while it is offered the same options and starts again at the first one when
\* the options changed.
rerun_viewed(dq, rs, tree, search_query, previous_names, previous_name) ==
    LET filtered == filtered_recipes(rs, tree, search_query)
        names == recipe_names(rs, filtered)
        name == IF names = <<>> THEN <<>>
                ELSE IF names = previous_names THEN previous_name ELSE names[1]
    IN  track_viewed(dq, rs, selected_recipe(rs, filtered, name))

\* recently_viewed at the end of a run whose handler left r.  A handler that
\* succeeds reruns the script: the add and delete handlers before this run
\* reaches line 281, the edit handler after it.  Any other run goes on to
\* line 281 and ends.
run_viewed(S, search_query, choice, r) ==
    LET filtered == filtered_recipes(S.recipes, S.recipe_tree, search_query)
        names == recipe_names(S.recipes, filtered)
        selected_recipe_name == selectbox(names, choice)
        selected == selected_recipe(S.recipes, filtered, selected_recipe_name)
        viewed == track_viewed(S.recently_viewed, S.recipes, selected)
    IN  IF r.outcome = "ok"
        THEN rerun_viewed(IF r.op = "edit" THEN viewed ELSE S.recently_viewed,
                          r.recipes, r.recipe_tree,
                          search_query, names, selected_recipe_name)
        ELSE viewed

\* the names of the recipes that are the selected_recipe at line 281 in a run
\* whose handler left r and in the rerun it asked for, in that order
run_views(S, search_query, choice, r) ==
    LET filtered == filtered_recipes(S.recipes, S.recipe_tree, search_query)
        names == recipe_names(S.recipes, filtered)
        selected_recipe_name == selectbox(names, choice)
        selected == selected_recipe(S.recipes, filtered, selected_recipe_name)
        first == IF selected # 0 THEN <<S.recipes[selected].name>> ELSE <<>>
        refiltered == filtered_recipes(r.recipes, r.recipe_tree, search_query)
        renamed == recipe_names(r.recipes, refiltered)
        name == IF renamed = <<>> THEN <<>>
                ELSE IF renamed = names THEN selected_recipe_name ELSE renamed[1]
        reselected == selected_recipe(r.recipes, refiltered, name)
        again == IF reselected # 0 THEN <<r.recipes[reselected].name>> ELSE <<>>
    IN  IF r.outcome = "ok"
        THEN (IF r.op = "edit" THEN first ELSE <<>>) \o again
        ELSE first

\* a run in which no form is submitted and the delete button is not pressed
no_handler(S) ==
    Result(S.recipes, S.recipe_tree, S.store, "view", "none", FALSE, <<>>)

(***************************************************************************)
(* "Save recipe" of add_recipe_form (lines 221-242)                        *)
(***************************************************************************)

\* the emptiness test without its .strip()
name_is_empty_unstripped(name) == name = <<>>

\* lines 222 and 331: not name.strip()
name_is_empty(name) == Strip(name) = <<>>

\* line 224 without its .lower()
add_is_duplicate_case_sensitive(all_recipes, new_name) ==
    \E i \in 1..Len(all_recipes) : all_recipes[i].name = new_name

\* line 224
add_is_duplicate(all_recipes, new_name) ==
    \E i \in 1..Len(all_recipes) : Lower(all_recipes[i].name) = Lower(new_name)

\* lines 227-237
new_recipe_of(name, texts) ==
    Recipe(Strip(name), FieldLines(texts[1]), FieldLines(texts[2]))

add_recipe_form(S, new_name, texts, io) ==
    LET all_recipes == S.recipes
        appended == Append(S.recipes, new_recipe_of(new_name, texts))
    IN  IF name_is_empty(new_name)
        THEN Result(S.recipes, S.recipe_tree, S.store, "add", "invalid", FALSE, <<>>)
        ELSE IF add_is_duplicate(all_recipes, new_name)
        THEN Result(S.recipes, S.recipe_tree, S.store, "add", "duplicate", FALSE, <<>>)
        ELSE Result(appended, rebuild_tree(appended),
                    save_recipes_to_file(S.store, appended, io),
                    "add", "ok", TRUE, rebuild_then_save(appended))

(***************************************************************************)
(* "Delete Selected Recipe" (lines 245-258); confirm is the value the      *)
(* confirmation checkbox returns in that run                               *)
(***************************************************************************)

\* lines 251-254
delete_from(rs, selected_recipe_name) ==
    SelectSeq(rs, LAMBDA r : r.name # selected_recipe_name)

delete_button(S, selected_recipe_name, confirm, io) ==
    LET kept == delete_from(S.recipes, selected_recipe_name)
    IN  IF confirm
        THEN Result(kept, rebuild_tree(kept),
                    save_recipes_to_file(S.store, kept, io),
                    "delete", "ok", TRUE, rebuild_then_save(kept))
        ELSE Result(S.recipes, S.recipe_tree, S.store,
                    "delete", "unconfirmed", FALSE, <<>>)

\* The confirmation checkbox as the page shows it: "absent" when the last run
\* did not create it, else "unchecked" or "checked".  st.checkbox returns the
\* value the page holds for a widget the last run created, and False for a
\* widget it creates anew.
checkbox(shown) == shown = "checked"

\* lines 245-258 in a run with a recipe selected; pressed is the value of
\* st.button, shown the checkbox as the page shows it when the run starts
delete_section(S, selected_recipe_name, pressed, shown, io) ==
    IF pressed
    THEN delete_button(S, selected_recipe_name, checkbox(shown), io)
    ELSE no_handler(S)

\* the checkbox as the page shows it when the run has ended: line 249 is
\* reached only when the button was pressed, and a delete that succeeds reruns
\* the script, with the button not pressed
checkbox_left(pressed, shown, r) ==
    IF pressed /\ r.outcome # "ok"
    THEN (IF shown = "checked" THEN "checked" ELSE "unchecked")
    ELSE "absent"

(***************************************************************************)
(* "Save changes" of edit_recipe_form (lines 330-365); selected is the     *)
(* selected_recipe of the run                                              *)
(***************************************************************************)

\* lines 335-341 without the test that excludes the edited recipe's own name
edit_is_duplicate_including_self(rs, edit_name, selected_name) ==
    \E i \in 1..Len(rs) : Lower(rs[i].name) = Lower(Strip(edit_name))

\* lines 335-341
edit_is_duplicate(rs, edit_name, selected_name) ==
    /\ Lower(Strip(edit_name)) # Lower(selected_name)
    /\ \E i \in 1..Len(rs) : Lower(rs[i].name) = Lower(Strip(edit_name))

\* the first position of rs holding a recipe named name, 0 when there is none
FirstNamed(rs, name) ==
    IF \E i \in 1..Len(rs) : rs[i].name = name
    THEN CHOOSE i \in 1..Len(rs) :
             /\ rs[i].name = name
             /\ \A j \in 1..(i - 1) : rs[j].name # name
    ELSE 0

\* an update that removes the recipes named old_name and appends the new one
update_recipe_moved(rs, old_name, new_recipe) ==
    Append(SelectSeq(rs, LAMBDA r : r.name # old_name), new_recipe)

\* lines 347-360: the first recipe named old_name gets the new fields
update_recipe(rs, old_name, new_recipe) ==
    IF FirstNamed(rs, old_name) # 0
    THEN [rs EXCEPT ![FirstNamed(rs, old_name)] = new_recipe]
    ELSE rs

edit_recipe_form(S, selected, edit_name, texts, io) ==
    LET updated == update_recipe(S.recipes, S.recipes[selected].name,
                                 new_recipe_of(edit_name, texts))
    IN  IF name_is_empty(edit_name)
        THEN Result(S.recipes, S.recipe_tree, S.store, "edit", "invalid", FALSE, <<>>)
        ELSE IF edit_is_duplicate(S.recipes, edit_name, S.recipes[selected].name)
        THEN Result(S.recipes, S.recipe_tree, S.store, "edit", "duplicate", FALSE, <<>>)
        ELSE Result(updated, rebuild_tree(updated),
                    save_recipes_to_file(S.store, updated, io),
                    "edit", "ok", TRUE, rebuild_then_save(updated))

(***************************************************************************)
(* What the user may type                                                  *)
(***************************************************************************)

\* recipe names typed into the forms: " ", "a", "A", " a", "B"
EnteredNames == {<<32>>, <<97>>, <<65>>, <<32, 97>>, <<66>>}

\* search texts: "", "a"
Queries == {<<>>, <<97>>}

\* the two text areas of a form, ingredients then instructions:
\* ("", "") and (" x\n", "y\n \nx")
FieldTexts == {<< <<>>, <<>> >>, << <<32, 120, 10>>, <<121, 10, 32, 10, 120>> >>}

\* outcomes of writing recipes.json
SaveOutcomes == {"ok"}

\* a recipes.json left by an earlier session: "B", and "A" with ingredient "x"
SeedFile == File(<<Recipe(<<66>>, <<>>, <<>>), Recipe(<<65>>, <<<<120>>>>, <<>>)>>)

\* the places of the selectbox the user can choose among (0: nothing listed)
Choices(rs, tree, search_query) ==
    LET n == Len(filtered_recipes(rs, tree, search_query))
    IN  IF n = 0 THEN {0} ELSE 1..n

(***************************************************************************)
(* The session                                                             *)
(***************************************************************************)

\* every run starts with init_session_state(), and "recipes" is in
\* st.session_state from the first run on
Current ==
    init_session_state(State(recipes, recipe_tree, recently_viewed, store), TRUE)

\* no run yet has created the confirmation checkbox; event is the last
\* thing the user did and target the recipe name the delete button was
\* pressed for
NoWidgets == [confirm_delete |-> "absent", target |-> <<>>, event |-> "none"]

\* the ghosts and the widget state, which the sessions below leave alone
Aside == <<entered, most_recent, widgets>>

\* the selected_recipe_name of a run with search text q and choice c
SelectedName(q, c) ==
    LET filtered == filtered_recipes(recipes, recipe_tree, q)
    IN  selectbox(recipe_names(recipes, filtered), c)

\* the selected_recipe of a run with search text q and choice c
SelectedAt(q, c) ==
    selected_recipe(recipes, filtered_recipes(recipes, recipe_tree, q), SelectedName(q, c))

\* a run with search text q and choice c whose handler left r
Run(q, c, r) ==
    /\ recipes' = r.recipes
    /\ recipe_tree' = r.recipe_tree
    /\ store' = r.store
    /\ recently_viewed' = run_viewed(Current, q, c, r)
    /\ last' = [op |-> r.op, outcome |-> r.outcome, saved |-> r.saved]

\* the first run of the script: init_session_state() finds nothing in
\* st.session_state, and the run goes on to line 281 with the first recipe
\* selected
FirstRun(file) ==
    /\ store = file
    /\ recipes = init_session_state(NewSession(store), FALSE).recipes
    /\ recipe_tree = init_session_state(NewSession(store), FALSE).recipe_tree
    /\ recently_viewed =
           rerun_viewed(init_session_state(NewSession(store), FALSE).recently_viewed,
                        recipes, recipe_tree, <<>>, <<>>, <<>>)
    /\ last = [op |-> "init", outcome |-> "none", saved |-> FALSE]

Started(file) ==
    /\ FirstRun(file)
    /\ entered = <<>>
    /\ most_recent = <<>>
    /\ widgets = NoWidgets

Init == \E file \in {NoFile, BadFile, SeedFile} : Started(file)

\* the user changes the search text or the selection
View ==
    \E q \in Queries : \E c \in Choices(recipes, recipe_tree, q) :
        /\ Run(q, c, no_handler(Current))
        /\ UNCHANGED Aside

AddRecipe(q, c, n, t, io) ==
    LET r == add_recipe_form(Current, n, t, io)
    IN  /\ Len(r.recipes) <= MaxRecipes
        /\ Run(q, c, r)

Add ==
    \E n \in EnteredNames, t \in FieldTexts, io \in SaveOutcomes :
        \E q \in Queries : \E c \in Choices(recipes, recipe_tree, q) :
            /\ AddRecipe(q, c, n, t, io)
            /\ UNCHANGED Aside

\* line 245: the button is there when a recipe is selected
Delete ==
    \E q \in Queries : \E c \in Choices(recipes, recipe_tree, q) :
        \E confirm \in BOOLEAN, io \in SaveOutcomes :
            /\ SelectedName(q, c) # <<>>
            /\ Run(q, c, delete_button(Current, SelectedName(q, c), confirm, io))
            /\ UNCHANGED Aside

\* line 281: the form is there when a recipe is selected
Edit ==
    \E q \in Queries : \E c \in Choices(recipes, recipe_tree, q) :
        \E n \in EnteredNames, t \in FieldTexts, io \in SaveOutcomes :
            /\ SelectedAt(q, c) # 0
            /\ Run(q, c, edit_recipe_form(Current, SelectedAt(q, c), n, t, io))
            /\ UNCHANGED Aside

Next == View \/ Add \/ Delete \/ Edit

Spec == Init /\ [][Next]_vars

\* A session in which the user only adds recipes; entered remembers the names
\* typed by the adds that succeeded.
Create ==
    \E n \in EnteredNames, t \in FieldTexts, io \in SaveOutcomes :
        \E q \in Queries : \E c \in Choices(recipes, recipe_tree, q) :
            /\ AddRecipe(q, c, n, t, io)
            /\ entered' = IF last'.outcome = "ok" THEN Append(entered, n) ELSE entered
            /\ UNCHANGED <<most_recent, widgets>>

SpecCreate == Init /\ [][Create]_vars

(***************************************************************************)
(* A session in which writing recipes.json can fail                        *)
(***************************************************************************)

\* names typed into the forms: "a", "B", " "
IONames == {<<97>>, <<66>>, <<32>>}

\* the text areas: ("x", "")
IOTexts == {<< <<120>>, <<>> >>}

IOOutcomes == {"ok", "open_fails", "write_fails"}

IOView ==
    \E c \in Choices(recipes, recipe_tree, <<>>) :
        /\ Run(<<>>, c, no_handler(Current))
        /\ UNCHANGED Aside

IOAdd ==
    \E n \in IONames, t \in IOTexts, io \in IOOutcomes :
        \E c \in Choices(recipes, recipe_tree, <<>>) :
            /\ AddRecipe(<<>>, c, n, t, io)
            /\ UNCHANGED Aside

IODelete ==
    \E c \in Choices(recipes, recipe_tree, <<>>) :
        \E confirm \in BOOLEAN, io \in IOOutcomes :
            /\ SelectedName(<<>>, c) # <<>>
            /\ Run(<<>>, c, delete_button(Current, SelectedName(<<>>, c), confirm, io))
            /\ UNCHANGED Aside

IOEdit ==
    \E c \in Choices(recipes, recipe_tree, <<>>) :
        \E n \in IONames, t \in IOTexts, io \in IOOutcomes :
            /\ SelectedAt(<<>>, c) # 0
            /\ Run(<<>>, c, edit_recipe_form(Current, SelectedAt(<<>>, c), n, t, io))
            /\ UNCHANGED Aside

IONext == IOView \/ IOAdd \/ IODelete \/ IOEdit

SpecIO == Init /\ [][IONext]_vars

(***************************************************************************)
(* A session that remembers the order of the views                         *)
(***************************************************************************)

\* the last RecentMax distinct names viewed, in the order of their latest
\* view, after name is viewed
viewed_last(names, name) ==
    LET moved == Append(SelectSeq(names, LAMBDA x : x # name), name)
    IN  IF Len(moved) > RecentMax THEN Tail(moved) ELSE moved

RECURSIVE viewed_all(_, _)
viewed_all(names, views) ==
    IF views = <<>> THEN names
    ELSE viewed_all(viewed_last(names, Head(views)), Tail(views))

\* a run with search text q and choice c whose handler left r, remembered
Remembered(q, c, r) ==
    /\ Run(q, c, r)
    /\ most_recent' = viewed_all(most_recent, run_views(Current, q, c, r))
    /\ UNCHANGED <<entered, widgets>>

RecentView ==
    \E c \in Choices(recipes, recipe_tree, <<>>) :
        Remembered(<<>>, c, no_handler(Current))

RecentAdd ==
    \E n \in IONames, t \in IOTexts, io \in SaveOutcomes :
        \E c \in Choices(recipes, recipe_tree, <<>>) :
            LET r == add_recipe_form(Current, n, t, io)
            IN  Len(r.recipes) <= MaxRecipes /\ Remembered(<<>>, c, r)

RecentDelete ==
    \E c \in Choices(recipes, recipe_tree, <<>>) :
        \E confirm \in BOOLEAN, io \in SaveOutcomes :
            /\ SelectedName(<<>>, c) # <<>>
            /\ Remembered(<<>>, c,
                          delete_button(Current, SelectedName(<<>>, c), confirm, io))

RecentEdit ==
    \E c \in Choices(recipes, recipe_tree, <<>>) :
        \E n \in IONames, t \in IOTexts, io \in SaveOutcomes :
            /\ SelectedAt(<<>>, c) # 0
            /\ Remembered(<<>>, c,
                          edit_recipe_form(Current, SelectedAt(<<>>, c), n, t, io))

RecentNext == RecentView \/ RecentAdd \/ RecentDelete \/ RecentEdit

\* the first run views the recipe it selects
RecentInit ==
    \E file \in {NoFile, BadFile, SeedFile} :
        /\ FirstRun(file)
        /\ entered = <<>>
        /\ most_recent = recently_viewed
        /\ widgets = NoWidgets

SpecRecent == RecentInit /\ [][RecentNext]_vars

(***************************************************************************)
(* A session over six names.  It starts from a file holding the recipe     *)
(* "c", and the user adds a recipe only when there is none, so that the    *)
(* collection holds one recipe at most while its name goes through the six.*)
(***************************************************************************)

\* "c", "d", "e", "f", "g", "h"
SixNames == {<<99>>, <<100>>, <<101>>, <<102>>, <<103>>, <<104>>}

SixSeedFile == File(<<Recipe(<<99>>, <<>>, <<>>)>>)

SixView ==
    \E c \in Choices(recipes, recipe_tree, <<>>) :
        /\ Run(<<>>, c, no_handler(Current))
        /\ UNCHANGED Aside

SixAdd ==
    \E n \in SixNames, t \in IOTexts, io \in SaveOutcomes :
        \E c \in Choices(recipes, recipe_tree, <<>>) :
            /\ recipes = <<>>
            /\ AddRecipe(<<>>, c, n, t, io)
            /\ UNCHANGED Aside

SixDelete ==
    \E c \in Choices(recipes, recipe_tree, <<>>) :
        \E confirm \in BOOLEAN, io \in SaveOutcomes :
            /\ SelectedName(<<>>, c) # <<>>
            /\ Run(<<>>, c, delete_button(Current, SelectedName(<<>>, c), confirm, io))
            /\ UNCHANGED Aside

SixEdit ==
    \E c \in Choices(recipes, recipe_tree, <<>>) :
        \E n \in SixNames, t \in IOTexts, io \in SaveOutcomes :
            /\ SelectedAt(<<>>, c) # 0
            /\ Run(<<>>, c, edit_recipe_form(Current, SelectedAt(<<>>, c), n, t, io))
            /\ UNCHANGED Aside

SixNext == SixView \/ SixAdd \/ SixDelete \/ SixEdit

SpecSix == Started(SixSeedFile) /\ [][SixNext]_vars

(***************************************************************************)
(* A session with the delete button and its confirmation checkbox.  Every  *)
(* event of the page reruns the script; st.button is True only in the run  *)
(* its click causes.                                                       *)
(***************************************************************************)

\* the user changes the selection: a run with the button not pressed
PageView ==
    \E c \in Choices(recipes, recipe_tree, <<>>) :
        /\ Run(<<>>, c, no_handler(Current))
        /\ widgets' = [confirm_delete |-> "absent", target |-> <<>>, event |-> "select"]
        /\ UNCHANGED <<entered, most_recent>>

PageAdd ==
    \E n \in IONames, t \in IOTexts, io \in SaveOutcomes :
        \E c \in Choices(recipes, recipe_tree, <<>>) :
            /\ AddRecipe(<<>>, c, n, t, io)
            /\ widgets' = [confirm_delete |-> "absent", target |-> <<>>, event |-> "add"]
            /\ UNCHANGED <<entered, most_recent>>

PageEdit ==
    \E c \in Choices(recipes, recipe_tree, <<>>) :
        \E n \in IONames, t \in IOTexts, io \in SaveOutcomes :
            /\ SelectedAt(<<>>, c) # 0
            /\ Run(<<>>, c, edit_recipe_form(Current, SelectedAt(<<>>, c), n, t, io))
            /\ widgets' = [confirm_delete |-> "absent", target |-> <<>>, event |-> "edit"]
            /\ UNCHANGED <<entered, most_recent>>

\* the user presses "Delete Selected Recipe"
PagePressDelete ==
    \E c \in Choices(recipes, recipe_tree, <<>>), io \in SaveOutcomes :
        LET r == delete_section(Current, SelectedName(<<>>, c), TRUE,
                                widgets.confirm_delete, io)
        IN  /\ SelectedName(<<>>, c) # <<>>
            /\ Run(<<>>, c, r)
            /\ widgets' = [confirm_delete |->
                               checkbox_left(TRUE, widgets.confirm_delete, r),
                           target |-> SelectedName(<<>>, c),
                           event |-> "press"]
            /\ UNCHANGED <<entered, most_recent>>

\* the user ticks the checkbox the page shows; the selection is as it was
PageTickConfirm ==
    \E c \in Choices(recipes, recipe_tree, <<>>), io \in SaveOutcomes :
        LET r == delete_section(Current, SelectedName(<<>>, c), FALSE, "checked", io)
        IN  /\ widgets.confirm_delete = "unchecked"
            /\ SelectedName(<<>>, c) = widgets.target
            /\ Run(<<>>, c, r)
            /\ widgets' = [confirm_delete |-> checkbox_left(FALSE, "checked", r),
                           target |-> widgets.target,
                           event |-> "tick"]
            /\ UNCHANGED <<entered, most_recent>>

PageNext == PageView \/ PageAdd \/ PageEdit \/ PagePressDelete \/ PageTickConfirm

SpecPage == Init /\ [][PageNext]_vars

(***************************************************************************)
(* The BinarySearchTree on its own: recipes are put in one at a time, with *)
(* any names, and recipes remembers them in the order they were put in.    *)
(***************************************************************************)

\* "A", "a", "B", "b", "C"
IndexNames == {<<65>>, <<97>>, <<66>>, <<98>>, <<67>>}

\* BinarySearchTree(): root is None
IndexInit ==
    /\ recipes = <<>>
    /\ recipe_tree = <<>>
    /\ recently_viewed = <<>>
    /\ store = NoFile
    /\ last = [op |-> "new", outcome |-> "none", saved |-> FALSE]
    /\ entered = <<>>
    /\ most_recent = <<>>
    /\ widgets = NoWidgets

IndexInsert ==
    \E n \in IndexNames :
        /\ Len(recipes) < MaxInserted
        /\ recipes' = Append(recipes, Recipe(n, <<>>, <<>>))
        /\ recipe_tree' = insert(recipe_tree, recipes', Len(recipes'))
        /\ last' = [op |-> "insert", outcome |-> "ok", saved |-> FALSE]
        /\ UNCHANGED <<recently_viewed, store, entered, most_recent, widgets>>

SpecIndex == IndexInit /\ [][IndexInsert]_vars

(***************************************************************************)
(* A session in which the user adds and edits recipes and searches         *)
(***************************************************************************)

\* names typed into the add form: "a", "ab"
SearchNames == {<<97>>, <<97, 98>>}

\* search texts: "", "a ", "b ", "ab", "A"
SearchQueries == {<<>>, <<97, 32>>, <<98, 32>>, <<97, 98>>, <<65>>}

SearchView ==
    \E q \in SearchQueries : \E c \in Choices(recipes, recipe_tree, q) :
        /\ Run(q, c, no_handler(Current))
        /\ UNCHANGED Aside

SearchAdd ==
    \E n \in SearchNames, t \in IOTexts, io \in SaveOutcomes :
        \E q \in SearchQueries : \E c \in Choices(recipes, recipe_tree, q) :
            /\ AddRecipe(q, c, n, t, io)
            /\ UNCHANGED Aside

SearchEdit ==
    \E q \in SearchQueries : \E c \in Choices(recipes, recipe_tree, q) :
        \E n \in SearchNames, t \in IOTexts, io \in SaveOutcomes :
            /\ SelectedAt(q, c) # 0
            /\ Run(q, c, edit_recipe_form(Current, SelectedAt(q, c), n, t, io))
            /\ UNCHANGED Aside

SearchNext == SearchView \/ SearchAdd \/ SearchEdit

SpecSearch == Init /\ [][SearchNext]_vars

(***************************************************************************)
(* Vocabulary of the properties                                            *)
(***************************************************************************)

\* the recipes a run can have as its selected_recipe
Selectable ==
    UNION {{SelectedAt(q, c) : c \in Choices(recipes, recipe_tree, q)} : q \in Queries}
        \ {0}

\* the first recipe of rs whose name equals name case-insensitively, 0 for none
LinearScan(rs, name) ==
    IF \E i \in 1..Len(rs) : Lower(rs[i].name) = Lower(name)
    THEN CHOOSE i \in 1..Len(rs) :
             /\ Lower(rs[i].name) = Lower(name)
             /\ \A j \in 1..(i - 1) : Lower(rs[j].name) # Lower(name)
    ELSE 0

UpperChar(c) == IF c \in 97..122 THEN c - 32 ELSE c

\* every upper/lower-case variant of name
CaseVariants(name) ==
    {v \in [1..Len(name) -> 65..122] :
        \A i \in 1..Len(name) : v[i] \in {LowerChar(name[i]), UpperChar(name[i])}}

\* rs without its k-th recipe
RemoveAt(rs, k) == SubSeq(rs, 1, k - 1) \o SubSeq(rs, k + 1, Len(rs))

\* a handler left the collection, the Index and the file as they are and did
\* not save
Untouched(r) ==
    /\ r.recipes = recipes
    /\ r.recipe_tree = recipe_tree
    /\ r.store = store
    /\ ~r.saved

(***************************************************************************)
(* Properties                                                              *)
(***************************************************************************)

\* C1: the collection never holds two recipes whose lowercased names are equal.
\* The add form compares the name as typed (line 224) and stores it stripped
\* (line 228): "a" then " a" are both accepted and both stored as "a".
C1_UniqueNames ==
    \A i, j \in 1..Len(recipes) :
        i # j => Lower(recipes[i].name) # Lower(recipes[j].name)

\* C2: an add whose typed name equals, case-insensitively, the name of a recipe
\* of the collection is rejected as a duplicate, and the rejection leaves the
\* collection and the Index as they are and does not save.
C2_DuplicateCreateRejected ==
    \A n \in EnteredNames, t \in FieldTexts, io \in SaveOutcomes :
        (\E i \in 1..Len(recipes) : Lower(recipes[i].name) = Lower(n))
        => LET r == add_recipe_form(Current, n, t, io)
           IN  r.outcome = "duplicate" /\ Untouched(r)

C2_Witness ==
    /\ last.op = "add"
    /\ last.outcome = "duplicate"
    /\ Len(recipes) = 2

\* C3: right after a successful add, edit or delete, Index.search of every
\* recipe's name returns the recipe a case-insensitive first-match linear scan of
\* the collection returns, and the Index refers to no recipe outside the
\* collection.
C3_IndexMatchesCollection ==
    last.outcome = "ok"
    => /\ \A i \in 1..Len(recipes) :
              search(recipe_tree, recipes, recipes[i].name)
                  = LinearScan(recipes, recipes[i].name)
       /\ \A k \in 1..Len(recipe_tree) : recipe_tree[k].recipe \in 1..Len(recipes)

C3_Witness ==
    /\ last.outcome = "ok"
    /\ Len(recipes) = 2
    /\ Lower(recipes[1].name) # Lower(recipes[2].name)
    /\ recipe_tree[1].right # 0

\* C4: after adds whose typed names are pairwise distinct case-insensitively,
\* every recipe they created is returned by Index.search for every upper/lower-case
\* variant of its stored name.  (Fails with C1: "a" and " a" are distinct as
\* typed and both stored as "a"; the second is never found.)
C4_CreatedFoundAnyCasing ==
    (\A i, j \in 1..Len(entered) : i # j => Lower(entered[i]) # Lower(entered[j]))
    => \A i \in 1..Len(entered) :
           LET p == Len(recipes) - Len(entered) + i
           IN  \A v \in CaseVariants(recipes[p].name) :
                   search(recipe_tree, recipes, v) = p

\* C5: an edit whose new name differs case-insensitively from the edited
\* recipe's name and equals, case-insensitively, the name of another recipe is
\* rejected as a duplicate and leaves collection, Index and file as they are; an
\* edit that only changes the casing of the recipe's own name is accepted.
C5_DuplicateRenameRejected ==
    \A sel \in Selectable :
        \A n \in EnteredNames, t \in FieldTexts, io \in SaveOutcomes :
            LET r == edit_recipe_form(Current, sel, n, t, io)
            IN  /\ ( /\ Lower(Strip(n)) # Lower(recipes[sel].name)
                     /\ \E j \in 1..Len(recipes) :
                            j # sel /\ Lower(recipes[j].name) = Lower(Strip(n)) )
                   => (r.outcome = "duplicate" /\ Untouched(r))
                /\ Lower(Strip(n)) = Lower(recipes[sel].name) => r.outcome = "ok"

C5_Witness ==
    /\ last.op = "edit"
    /\ last.outcome = "duplicate"

\* C6: after a successful edit that renames a recipe to a name that differs
\* case-insensitively, Index.search of the new name returns the recipe with the
\* new fields and Index.search of the old name returns nothing.  (Fails with C1:
\* with two recipes stored as "a", renaming the first leaves the second under
\* the old key.)
C6_RenameRekeysIndex ==
    \A sel \in Selectable :
        \A n \in EnteredNames, t \in FieldTexts, io \in SaveOutcomes :
            LET old_name == recipes[sel].name
                r == edit_recipe_form(Current, sel, n, t, io)
                found == search(r.recipe_tree, r.recipes, Strip(n))
            IN  (r.outcome = "ok" /\ Lower(Strip(n)) # Lower(old_name))
                => /\ found # 0
                   /\ r.recipes[found] = new_recipe_of(n, t)
                   /\ search(r.recipe_tree, r.recipes, old_name) = 0

\* C7: a successful edit replaces the fields of exactly one recipe in place: the
\* collection keeps its length, the edited recipe keeps its position and every
\* other recipe keeps position, name, ingredients and instructions.
C7_EditInPlace ==
    \A sel \in Selectable :
        \A n \in EnteredNames, t \in FieldTexts, io \in SaveOutcomes :
            LET r == edit_recipe_form(Current, sel, n, t, io)
            IN  r.outcome = "ok"
                => /\ Len(r.recipes) = Len(recipes)
                   /\ r.recipes[sel] = new_recipe_of(n, t)
                   /\ \A j \in 1..Len(recipes) : j # sel => r.recipes[j] = recipes[j]

C7_Witness ==
    /\ last.op = "edit"
    /\ last.outcome = "ok"
    /\ Len(recipes) = 2

\* C8: delete(name) removes at most one recipe, the one named exactly name, and
\* leaves the others in their order and unchanged; deleting a name no recipe has
\* leaves the collection unchanged.  (Fails with C1: two recipes stored as "a"
\* are both removed by one delete.)
C8_DeleteRemovesOne ==
    /\ \A sel \in Selectable : \A io \in SaveOutcomes :
           LET r == delete_button(Current, recipes[sel].name, TRUE, io)
           IN  \E k \in 1..Len(recipes) :
                   /\ recipes[k].name = recipes[sel].name
                   /\ r.recipes = RemoveAt(recipes, k)
    /\ \A n \in EnteredNames :
           (\A i \in 1..Len(recipes) : recipes[i].name # Strip(n))
           => delete_from(recipes, Strip(n)) = recipes

\* C10: an add or an edit whose name is empty after stripping is rejected as an
\* invalid name and leaves collection, Index and file as they are, with no save;
\* and no recipe of the collection has an empty name.
C10_EmptyNameRejected ==
    /\ \A n \in EnteredNames, t \in FieldTexts, io \in SaveOutcomes :
           Strip(n) = <<>>
           => /\ LET r == add_recipe_form(Current, n, t, io)
                 IN  r.outcome = "invalid" /\ Untouched(r)
              /\ \A sel \in Selectable :
                     LET r == edit_recipe_form(Current, sel, n, t, io)
                     IN  r.outcome = "invalid" /\ Untouched(r)
    /\ \A i \in 1..Len(recipes) : recipes[i].name # <<>>

C10_Witness ==
    /\ last.op \in {"add", "edit"}
    /\ last.outcome = "invalid"
    /\ Len(recipes) >= 1

\* the recipes a run without search text can have as its selected_recipe
Listed ==
    {SelectedAt(<<>>, c) : c \in Choices(recipes, recipe_tree, <<>>)} \ {0}

\* what the three handlers can leave when the write does io
Handled(io) ==
    {add_recipe_form(Current, n, t, io) : n \in IONames, t \in IOTexts}
    \cup {edit_recipe_form(Current, sel, n, t, io) :
              sel \in Listed, n \in IONames, t \in IOTexts}
    \cup {delete_button(Current, recipes[sel].name, confirm, io) :
              sel \in Listed, confirm \in BOOLEAN}

\* C11: a successful add, edit or delete changes the collection, then rebuilds
\* the Index from the changed collection, then asks once for a save of the
\* whole changed collection in its order (which a write that works puts in the
\* file); a rejected operation leaves everything as it is and makes no call.
C11_MutateRebuildSave ==
    \A io \in IOOutcomes : \A r \in Handled(io) :
        IF r.outcome = "ok"
        THEN /\ r.calls = <<Call("rebuild_tree", r.recipes),
                            Call("save_recipes_to_file", r.recipes)>>
             /\ r.recipe_tree = build_tree(r.recipes)
             /\ r.saved
             /\ io = "ok" => r.store = File(r.recipes)
        ELSE Untouched(r) /\ r.calls = <<>>

C11_Witness ==
    /\ last.op = "edit"
    /\ last.outcome = "ok"
    /\ last.saved
    /\ Len(recipes) = 2
    /\ store = File(recipes)

\* C12 as stated: when the write fails the change stays in the collection and
\* in the Index, and the file keeps the content it had.
C12_StoreKeepsContent ==
    \A io \in IOOutcomes \ {"ok"} : \A r \in Handled(io) :
        r.outcome = "ok"
        => /\ r.recipe_tree = build_tree(r.recipes)
           /\ \E w \in Handled("ok") :
                  w.op = r.op /\ w.outcome = "ok" /\ w.recipes = r.recipes
           /\ r.store = store

\* C12: when the write fails the change stays in the collection and in the
\* Index, as if the write had worked; the file keeps the content it had when it
\* could not be opened, and is left unreadable when the write failed after it
\* was opened; a later write that works puts the whole collection in the file.
C12_FailedSaveKeepsChange ==
    /\ \A io \in IOOutcomes \ {"ok"} : \A r \in Handled(io) :
           r.outcome = "ok"
           => /\ r.recipe_tree = build_tree(r.recipes)
              /\ \E w \in Handled("ok") :
                     w.op = r.op /\ w.outcome = "ok" /\ w.recipes = r.recipes
              /\ r.store = IF io = "open_fails" THEN store ELSE BadFile
    /\ \A r \in Handled("ok") : r.outcome = "ok" => r.store = File(r.recipes)

C12_Witness ==
    /\ last.outcome = "ok"
    /\ last.saved
    /\ Len(recipes) = 2
    /\ store = BadFile

\* C15: the collection is read from the file by the first run only, and the
\* Index of that run is built from what was read; in every later run the
\* collection and the Index change only by a handler that succeeds, also when
\* the file holds something else than the collection.
C15_LoadedOnce ==
    /\ [](last.op = "init"
           => /\ recipes = load_recipes_from_file(store)
              /\ recipe_tree = build_tree(recipes))
    /\ [][last'.outcome # "ok"
             => recipes' = recipes /\ recipe_tree' = recipe_tree]_vars

C15_Witness ==
    /\ last.op = "view"
    /\ recipes # <<>>
    /\ load_recipes_from_file(store) # recipes

\* C13: the history is the last 5 distinct names viewed, in the order of
\* their latest view, the latest last; a name viewed again becomes the last.
\* Line 283 leaves a name that is already in the history where it is.
C13_LatestViewLast == recently_viewed = most_recent

\* C14: the history holds at most 5 names and no name twice; when it is full,
\* a run takes out its oldest entries, one for each name it puts in, and the
\* names it puts in were not in it.
C14_BoundedDistinct ==
    /\ [](/\ Len(recently_viewed) <= 5
          /\ \A i, j \in 1..Len(recently_viewed) :
                 i # j => recently_viewed[i] # recently_viewed[j])
    /\ [][Len(recently_viewed) = 5
             => \E k \in 0..2 :
                    /\ Len(recently_viewed') = 5
                    /\ SubSeq(recently_viewed', 1, 5 - k)
                           = SubSeq(recently_viewed, k + 1, 5)
                    /\ \A i \in (6 - k)..5 :
                           recently_viewed'[i] \notin Range(recently_viewed)]_vars

\* the first name viewed, "c", is no longer in a full history
C14_Witness ==
    /\ Len(recently_viewed) = 5
    /\ <<99>> \notin Range(recently_viewed)
    /\ last.op = "edit"

\* C16: once the user has pressed "Delete Selected Recipe" and then ticked the
\* confirmation checkbox, the recipe that was selected is no longer in the
\* collection.  The run the tick causes has the button not pressed, skips
\* lines 249-258, and deletes nothing.
C16_ConfirmedDeleteRemoves ==
    widgets.event = "tick"
    => \A i \in 1..Len(recipes) : recipes[i].name # widgets.target

\* the longest path from node down, counted in nodes
RECURSIVE depth(_, _)
depth(tree, node) ==
    IF node = 0 THEN 0
    ELSE LET l == depth(tree, tree[node].left)
             r == depth(tree, tree[node].right)
         IN  1 + IF l > r THEN l ELSE r

\* C17: whatever recipes were put in the Index and in whatever order, a search
\* returns the first put in among those whose lowercased name equals the
\* lowercased query (none when there is none); one put in later under the
\* same lowercased name is returned by no search.
C17_FirstInsertedFound ==
    \A n \in IndexNames \cup {<<99>>} :
        search(recipe_tree, recipes, n) = LinearScan(recipes, n)

C17_Witness ==
    /\ Len(recipes) = 3
    /\ recipes[1].name = <<66>>
    /\ recipes[2].name = <<97>>
    /\ recipes[3].name = <<65>>
    /\ last.op = "insert"

\* C18: names put in in strictly increasing lowercased order make a chain to
\* the right: the k-th node holds the k-th recipe, has no left child and has
\* the (k+1)-th node to its right, the depth is the number of names, and the
\* search of the k-th name visits k nodes and finds it.
C18_IncreasingMakesChain ==
    (\A k \in 1..(Len(recipes) - 1) :
         StrLess(Lower(recipes[k].name), Lower(recipes[k + 1].name)))
    => /\ Len(recipe_tree) = Len(recipes)
       /\ depth(recipe_tree, IF recipe_tree = <<>> THEN 0 ELSE 1) = Len(recipes)
       /\ \A k \in 1..Len(recipe_tree) :
              /\ recipe_tree[k].recipe = k
              /\ recipe_tree[k].left = 0
              /\ recipe_tree[k].right = IF k < Len(recipes) THEN k + 1 ELSE 0
              /\ search_visits(recipe_tree, recipes, 1, Lower(recipes[k].name)) = k
              /\ search(recipe_tree, recipes, recipes[k].name) = k

C18_Witness ==
    /\ Len(recipes) = 3
    /\ recipes[1].name = <<65>>
    /\ recipes[2].name = <<66>>
    /\ recipes[3].name = <<67>>
    /\ search_visits(recipe_tree, recipes, 1, <<99>>) = 3

\* the recipes listed for search text q are those an exact lookup of text
\* finds, or else those whose name contains text, in the order of the collection
ListedFor(q, text) ==
    filtered_recipes(recipes, recipe_tree, q)
        = IF search(recipe_tree, recipes, text) # 0
          THEN <<search(recipe_tree, recipes, text)>>
          ELSE SelectSeq(Positions(recipes),
                         LAMBDA i : Contains(Lower(text), Lower(recipes[i].name)))

\* C19: for a search text that is not blank, the recipes listed are the one
\* the Index finds, or else those whose name contains the text whatever the
\* case, in the order of the collection, the lookup and the containment test
\* being made on one and the same text: the text as typed, or the text
\* stripped.  Line 180 looks up the stripped text and line 187 tests the text
\* as typed.
C19_SameTextSearched ==
    \/ \A q \in SearchQueries : Strip(q) # <<>> => ListedFor(q, q)
    \/ \A q \in SearchQueries : Strip(q) # <<>> => ListedFor(q, Strip(q))

====
